---- MODULE Spec2Model ----
(***************************************************************************)
(* Model of rolling_resistance_calculator.py: the physics computation, the *)
(* formatter, and the three record stores (in-memory list, spreadsheet     *)
(* file, text mirror) with the handlers that keep them in step.            *)
(*                                                                         *)
(* Representation.                                                         *)
(*  - A Python str is a Text: a sequence of one-character strings (a field *)
(*    name is a Text of one atom, since it is only ever compared whole).   *)
(*  - A Python float is an integer number of millionths (fixed point).     *)
(*  - A Python value (dict value, spreadsheet cell) is a one-field record: *)
(*    None, Str(text) or Num(millionths).                                  *)
(***************************************************************************)
EXTENDS Integers, Sequences, FiniteSets, TLC

\* ------------------------------------------------------------------ bounds

\* Most records the in-memory list is allowed to hold in the model.
MaxRows == 2

\* Most edits made to the spreadsheet from outside the program (in Excel).
MaxEdits == 1

\* Files on disk when get_unique_filename is called.
MaxFiles == 2

\* Largest suffix of the candidate files on disk.
MaxSuffix == 3

\* ------------------------------------------------------------------ values

None == [none |-> TRUE]

Str(text) == [s |-> text]

Num(micro) == [n |-> micro]

IsNone(value) == "none" \in DOMAIN value

IsStr(value) == "s" \in DOMAIN value

IsNum(value) == "n" \in DOMAIN value


Digits == <<"0", "1", "2", "3", "4", "5", "6", "7", "8", "9">>

IsDigit(c) == \E i \in 1..10 : Digits[i] = c

DigitVal(c) == (CHOOSE i \in 1..10 : Digits[i] = c) - 1

RECURSIVE Pow10(_)
Pow10(k) == IF k = 0 THEN 1 ELSE 10 * Pow10(k - 1)

\* One million: the fixed-point scale of a float.
Scale == Pow10(6)

\* ------------------------------------------------------------------ str methods

\* str.replace(a, b) for one-character a and b.
Replace(text, a, b) == [i \in 1..Len(text) |-> IF text[i] = a THEN b ELSE text[i]]

RECURSIVE LStrip(_)
LStrip(text) ==
    IF text # << >> /\ Head(text) = " " THEN LStrip(Tail(text)) ELSE text

RECURSIVE RStrip(_)
RStrip(text) ==
    IF text # << >> /\ text[Len(text)] = " "
    THEN RStrip(SubSeq(text, 1, Len(text) - 1))
    ELSE text

\* str.strip()
Strip(text) == RStrip(LStrip(text))

\* str.split(): the maximal runs of non-blank characters, in order.
RECURSIVE SplitFrom(_, _, _)
SplitFrom(text, cur, acc) ==
    IF text = << >>
    THEN IF cur = << >> THEN acc ELSE Append(acc, cur)
    ELSE IF Head(text) = " "
         THEN SplitFrom(Tail(text), << >>, IF cur = << >> THEN acc ELSE Append(acc, cur))
         ELSE SplitFrom(Tail(text), Append(cur, Head(text)), acc)

Split(text) == SplitFrom(text, << >>, << >>)

\* ------------------------------------------------------------------ float()

RECURSIVE DigitsValue(_)
\* The integer a run of digits denotes.
DigitsValue(ds) ==
    IF ds = << >> THEN 0
    ELSE 10 * DigitsValue(SubSeq(ds, 1, Len(ds) - 1)) + DigitVal(ds[Len(ds)])

\* The millionths a run of fraction digits denotes (digits past the sixth dropped).
FracValue(ds) ==
    LET kept == IF Len(ds) > 6 THEN SubSeq(ds, 1, 6) ELSE ds
    IN  DigitsValue(kept) * Pow10(6 - Len(kept))

AllDigits(ds) == \A i \in 1..Len(ds) : IsDigit(ds[i])

\* Every "_" of the text stands between two digits (the grouping float()
\* and int() accept since Python 3.6).
GroupedWell(text) ==
    \A i \in 1..Len(text) :
        text[i] = "_" => /\ 1 < i /\ i < Len(text)
                         /\ IsDigit(text[i - 1]) /\ IsDigit(text[i + 1])

\* The text without its "_".
Ungrouped(text) == SelectSeq(text, LAMBDA c : c # "_")

\* float(text) for the decimal notations the inputs use: blanks around the
\* number are ignored, then digits, optionally a point and more digits;
\* single underscores between digits are skipped. Anything else (a comma, a
\* letter, a second point, nothing) is a ValueError.
ParseFloat(text) ==
    LET stripped == Strip(text)
        body == IF GroupedWell(stripped) THEN Ungrouped(stripped) ELSE stripped
        dots == {i \in 1..Len(body) : body[i] = "."}
    IN  IF body = << >> \/ Cardinality(dots) > 1
        THEN [ok |-> FALSE, v |-> 0]
        ELSE IF dots = {}
             THEN IF AllDigits(body)
                  THEN [ok |-> TRUE, v |-> DigitsValue(body) * Scale]
                  ELSE [ok |-> FALSE, v |-> 0]
             ELSE LET p == CHOOSE i \in dots : TRUE
                      ip == SubSeq(body, 1, p - 1)
                      fp == SubSeq(body, p + 1, Len(body))
                  IN  IF AllDigits(ip) /\ AllDigits(fp) /\ Len(ip) + Len(fp) > 0
                      THEN [ok |-> TRUE, v |-> DigitsValue(ip) * Scale + FracValue(fp)]
                      ELSE [ok |-> FALSE, v |-> 0]

\* ------------------------------------------------------------------ str(), f"{x:.Nf}"

RECURSIVE NatText(_)
\* The decimal digits of a natural number.
NatText(k) ==
    IF k < 10 THEN <<Digits[k + 1]>>
    ELSE Append(NatText(k \div 10), Digits[(k % 10) + 1])

RECURSIVE ZeroPad(_, _)
ZeroPad(text, width) ==
    IF Len(text) >= width THEN text ELSE ZeroPad(<<"0">> \o text, width)

\* f"{x:.{dp}f}": x rounded to dp decimal places, dp digits always shown.
FixedText(micro, dp) ==
    LET mag  == IF micro < 0 THEN 0 - micro ELSE micro
        unit == Pow10(6 - dp)
        q    == (mag + unit \div 2) \div unit
        ip   == NatText(q \div Pow10(dp))
        fp   == ZeroPad(NatText(q % Pow10(dp)), dp)
        sign == IF micro < 0 THEN <<"-">> ELSE << >>
    IN  sign \o ip \o <<".">> \o fp

RECURSIVE DropZeros(_)
DropZeros(ds) ==
    IF Len(ds) > 1 /\ ds[Len(ds)] = "0" THEN DropZeros(SubSeq(ds, 1, Len(ds) - 1)) ELSE ds

\* str(x) of a float: the shortest decimal that reads back as x.
FloatText(micro) ==
    LET mag == IF micro < 0 THEN 0 - micro ELSE micro
        ip  == NatText(mag \div Scale)
        fp  == DropZeros(ZeroPad(NatText(mag % Scale), 6))
    IN  (IF micro < 0 THEN <<"-">> ELSE << >>) \o ip \o <<".">> \o fp

\* str(value)
PyStr(value) ==
    CASE IsNone(value) -> <<"N", "o", "n", "e">>
      [] IsStr(value)  -> value.s
      [] IsNum(value)  -> FloatText(value.n)

\* ------------------------------------------------------------------ constants

\* Wheel diameter d = 0.645 m, in millimetres.
d_milli == 645

\* Motor speed in rpm.
rpm == 213

\* Supply voltage in volts.
V_supply == 12

\* Gravity g = 9.81 m/s^2, in hundredths.
g_centi == 981

\* Lever arm of the hanging mass, l_hang = 0.875 m, in millimetres.
l_hang_milli == 875

\* Lever arm of the tire, l_reifen = 0.358 m, in millimetres.
l_reifen_milli == 358

\* math.pi in millionths.
pi_micro == 3141593

F_tire == "Tire name / type"
F_pressure == "Tire pressure [bar]"
F_idle == "Idle currents [A]"
F_load == "Load currents [A]"
F_mean_idle == "Mean idle current [A]"
F_mean_load == "Mean load current [A]"
F_weight == "Weight on lever [kg]"
F_eff_weight == "Effective weight on tire [kg]"
F_speed == "Speed [m/s]"
F_P0 == "P_0 [W]"
F_Pload == "P_load [W]"
F_Prr == "P_rr [W]"
F_Crr == "C_rr"

\* Column order used everywhere.
FIELDNAMES ==
    <<F_tire, F_pressure, F_idle, F_load, F_mean_idle, F_mean_load, F_weight,
      F_eff_weight, F_speed, F_P0, F_Pload, F_Prr, F_Crr>>

FieldSet == {FIELDNAMES[i] : i \in 1..Len(FIELDNAMES)}

Cols == 1..Len(FIELDNAMES)

\* dict.get(key, default)
Get(row, key, default) == IF key \in DOMAIN row THEN row[key] ELSE default

\* ------------------------------------------------------------------ get_unique_filename

\* A path is a str whose atoms are its separators ("/", "."), blanks,
\* brackets, digits and the words between them.

\* p.rfind(ch), counted from 1; 0 when ch does not occur.
LastIndex(p, ch) ==
    LET at == {i \in 1..Len(p) : p[i] = ch}
    IN  IF at = {} THEN 0 ELSE CHOOSE i \in at : \A j \in at : j <= i

\* os.path.splitext: the extension starts at the last "." of the last
\* component, unless only dots precede it in that component.
splitext(p) ==
    LET sepIndex == LastIndex(p, "/")
        dotIndex == LastIndex(p, ".")
    IN  IF dotIndex > sepIndex /\ \E i \in (sepIndex + 1)..(dotIndex - 1) : p[i] # "."
        THEN [name |-> SubSeq(p, 1, dotIndex - 1), ext |-> SubSeq(p, dotIndex, Len(p))]
        ELSE [name |-> p, ext |-> << >>]

\* f"{name} ({counter}){ext}"
candidate(name, counter, ext) ==
    name \o <<" ", "(">> \o NatText(counter) \o <<")">> \o ext

RECURSIVE first_free_from_base(_, _, _, _)
\* Mutant of first_free: each candidate built on the candidate before it.
first_free_from_base(name, ext, counter, files) ==
    LET path == candidate(name, counter, ext)
    IN  IF path \notin files THEN path
        ELSE first_free_from_base(path, ext, counter + 1, files)

RECURSIVE first_free(_, _, _, _)
\* The while loop: the first candidate from counter on that does not exist.
first_free(name, ext, counter, files) ==
    LET path == candidate(name, counter, ext)
    IN  IF path \notin files THEN path
        ELSE first_free(name, ext, counter + 1, files)

\* get_unique_filename(base_path) on a disk holding the files.
get_unique_filename(base_path, files) ==
    IF base_path \notin files THEN base_path
    ELSE LET parts == splitext(base_path)
         IN  first_free(parts.name, parts.ext, 2, files)

\* os.path.join(script_dir, "rolling_resistance_data.xlsx") and ".csv"
base_xlsx == <<"script_dir", "/", "rolling_resistance_data", ".", "xlsx">>

base_csv == <<"script_dir", "/", "rolling_resistance_data", ".", "csv">>

\* ------------------------------------------------------------------ parse_float_list

RECURSIVE ParseAll(_)
\* float() of every token, in order; not ok as soon as one token is no number.
ParseAll(parts) ==
    IF parts = << >> THEN [ok |-> TRUE, vals |-> << >>]
    ELSE LET first == ParseFloat(Replace(Head(parts), ",", "."))
             rest  == ParseAll(Tail(parts))
         IN  IF first.ok /\ rest.ok
             THEN [ok |-> TRUE, vals |-> <<first.v>> \o rest.vals]
             ELSE [ok |-> FALSE, vals |-> << >>]

\* ok = FALSE stands for the ValueError ("No values entered", or float()'s).
parse_float_list(text) ==
    LET parts == Split(Strip(text))
    IN  IF parts = << >> THEN [ok |-> FALSE, vals |-> << >>] ELSE ParseAll(parts)

\* ------------------------------------------------------------------ format_value

decimal_places(key) ==
    CASE key \in {F_mean_idle, F_mean_load, F_speed, F_eff_weight, F_weight} -> 3
      [] key \in {F_P0, F_Pload, F_Prr, F_pressure} -> 2
      [] key = F_Crr -> 6
      [] OTHER -> 3

\* The text written for a value: "" for None or "", a number with the field's
\* decimal places, a string with every "," turned into ".".
format_value(key, value) ==
    CASE IsNone(value) -> << >>
      [] IsNum(value)  -> Replace(FixedText(value.n, decimal_places(key)), ",", ".")
      [] IsStr(value)  -> Replace(value.s, ",", ".")

\* ------------------------------------------------------------------ compute_result

RECURSIVE SeqSum(_)
SeqSum(vals) == IF vals = << >> THEN 0 ELSE Head(vals) + SeqSum(Tail(vals))

\* v = pi * d * (rpm / 60), in millionths.
SpeedMicro == (((pi_micro * d_milli) \div 1000) * rpm) \div 60

\* m_eff * g * v in thousandths, for m_eff in millionths.
Denominator(m_eff) ==
    ((((m_eff \div 1000) * g_centi) \div 100) * (SpeedMicro \div 1000)) \div 1000

\* ok = FALSE stands for the ZeroDivisionError of P_rr / (m_eff * g * v).
compute_result(idle_values, load_values, m_hang) ==
    LET I_idle == SeqSum(idle_values) \div Len(idle_values)
        I_load == SeqSum(load_values) \div Len(load_values)
        m_eff  == (m_hang * l_hang_milli) \div l_reifen_milli
        P0     == V_supply * I_idle
        P_weighted == V_supply * I_load
        P_rr   == P_weighted - P0
        den    == Denominator(m_eff)
    IN  IF den = 0
        THEN [ok |-> FALSE, r |-> << >>]
        ELSE [ok |-> TRUE,
              r  |-> [k \in {F_speed, F_mean_idle, F_mean_load, F_weight,
                             F_eff_weight, F_P0, F_Pload, F_Prr, F_Crr} |->
                        CASE k = F_speed      -> Num(SpeedMicro)
                          [] k = F_mean_idle  -> Num(I_idle)
                          [] k = F_mean_load  -> Num(I_load)
                          [] k = F_weight     -> Num(m_hang)
                          [] k = F_eff_weight -> Num(m_eff)
                          [] k = F_P0         -> Num(P0)
                          [] k = F_Pload      -> Num(P_weighted)
                          [] k = F_Prr        -> Num(P_rr)
                          [] k = F_Crr        -> Num(((P_rr \div 10) * 1000) \div (den \div 10))]]

\* ------------------------------------------------------------------ state

VARIABLES
    saved_rows,    \* self.saved_rows: the in-memory list of result dicts
    last_result,   \* self.last_result: None, or the last calculated dict
    xlsx_exists,   \* os.path.exists(self.filename_xlsx)
    sheet,         \* the worksheet of the spreadsheet file: its rows, header first
    csv_exists,    \* os.path.exists(self.filename_csv)
    csv_lines,     \* the lines of the mirror file, each a sequence of field texts
    op,            \* the handler that ran last
    outcome,       \* how it ended
    rows_used,     \* the row list the last Export or Plot worked on
    series,        \* what the last Plot handed to the chart: name -> points
    created,       \* whether the last handler created the spreadsheet file
    edits,         \* edits made to the spreadsheet from outside so far
    entered,       \* what the entry fields held when the last Calculate read them
    disk,          \* the paths of the files that exist on disk
    filename_xlsx, \* self.filename_xlsx
    filename_csv,  \* self.filename_csv
    written,       \* the paths the handlers have created or written so far
    resolved,      \* the last call of get_unique_filename: argument and result
    made,          \* what was created on disk since that call
    earlier        \* the call before it, when it had the same argument

vars ==
    <<saved_rows, last_result, xlsx_exists, sheet, csv_exists, csv_lines,
      op, outcome, rows_used, series, created, edits, entered,
      disk, filename_xlsx, filename_csv, written, resolved, made, earlier>>

\* What the handlers of the window work on.
app_vars ==
    <<saved_rows, last_result, xlsx_exists, sheet, csv_exists, csv_lines,
      rows_used, series, created, edits, entered, filename_xlsx, filename_csv, written>>

\* The record of calls of get_unique_filename.
resolver_vars == <<resolved, made, earlier>>

\* The three stores.
stores == <<saved_rows, xlsx_exists, sheet, csv_exists, csv_lines>>

\* A function with an empty domain: no series, an empty dict.
EmptyMap == [k \in {} |-> 0]

\* ------------------------------------------------------------------ the worksheet

\* A cell as the spreadsheet libraries store a written value: writing "" leaves
\* the cell blank, and a blank cell reads back as None.
StoredCell(text) == IF text = << >> THEN None ELSE Str(text)

\* A field name as a str.
NameText(name) == <<name>>

HeaderCells == [c \in Cols |-> Str(NameText(FIELDNAMES[c]))]

\* The keys of a result dict in the order on_calculate and compute_result
\* insert them.
result_keys ==
    <<F_tire, F_pressure, F_idle, F_load, F_speed, F_mean_idle, F_mean_load,
      F_weight, F_eff_weight, F_P0, F_Pload, F_Prr, F_Crr>>

\* Mutant of RowCells: one cell per key of the record, in the record's order.
RowCells_in_key_order(record) ==
    [c \in Cols |-> StoredCell(format_value(result_keys[c], Get(record, result_keys[c], Str(<< >>))))]

\* One data row of a record, column by column in FIELDNAMES order.
RowCells(record) ==
    [c \in Cols |-> StoredCell(format_value(FIELDNAMES[c], Get(record, FIELDNAMES[c], Str(<< >>))))]

\* ws.max_row: 1 for a sheet without cells.
max_row(ws) == IF Len(ws) = 0 THEN 1 ELSE Len(ws)

AllNone(cells) == \A c \in DOMAIN cells : IsNone(cells[c])

\* ws.max_row == 1 and all(c.value is None for c in ws[1])
SheetIsEmpty(ws) == max_row(ws) = 1 /\ (Len(ws) = 0 \/ AllNone(ws[1].vals))

\* The dict key of every column whose header cell is not None: str(col_name).
\* (The program writes distinct header names, so no key names two columns.)
header_keys(header) ==
    [c \in {c \in DOMAIN header : ~IsNone(header[c])} |-> PyStr(header[c])[1]]

\* row_dict: the cell of each named column under the column's key.
row_dict_of(cells, keys) ==
    [k \in {keys[c] : c \in DOMAIN keys} |-> cells[CHOOSE c \in DOMAIN keys : keys[c] = k]]

RECURSIVE DataRowsFrom(_, _, _)
\* The dicts of rows i.. of the sheet, rows whose cells are all None skipped.
DataRowsFrom(ws, keys, i) ==
    IF i > Len(ws) THEN << >>
    ELSE (IF AllNone(ws[i].vals) THEN << >> ELSE <<row_dict_of(ws[i].vals, keys)>>)
         \o DataRowsFrom(ws, keys, i + 1)

\* The read loop of on_go_to_excel and on_plot_pressure_vs_crr: header from
\* row 1, one dict per non-empty row from row 2 on.
read_rows(ws) ==
    IF Len(ws) = 0 THEN << >> ELSE DataRowsFrom(ws, header_keys(ws[1].vals), 2)

\* Mutant of create_workbook: the raw values written, not format_value's.
create_workbook_unformatted(records) ==
    <<[vals |-> HeaderCells, style |-> "header_format"]>>
    \o [i \in 1..Len(records) |->
          [vals |-> [c \in Cols |-> Get(records[i], FIELDNAMES[c], None)],
           style |-> "cell_format"]]

\* Mutant of create_workbook: only the newest record written below the header.
create_workbook_newest_only(records) ==
    <<[vals |-> HeaderCells, style |-> "header_format"]>>
    \o [i \in 1..(IF records = << >> THEN 0 ELSE 1) |->
          [vals |-> RowCells(records[Len(records)]), style |-> "cell_format"]]

\* The workbook xlsxwriter writes from saved_rows: a styled header row, then
\* one styled row per record in list order.
create_workbook(records) ==
    <<[vals |-> HeaderCells, style |-> "header_format"]>>
    \o [i \in 1..Len(records) |-> [vals |-> RowCells(records[i]), style |-> "cell_format"]]

\* Mutant of append_row: the row written at ws.max_row, over the last row.
append_row_at_max_row(ws, record) ==
    LET with_header ==
            IF SheetIsEmpty(ws)
            THEN <<[vals |-> HeaderCells, style |-> "none"]>>
            ELSE ws
    IN  [with_header EXCEPT ![Len(with_header)] =
            [vals |-> RowCells(record), style |-> with_header[Len(with_header)].style]]

\* The sheet after the append of _append_last_result_to_excel_if_exists.
append_row(ws, record) ==
    LET with_header ==
            IF SheetIsEmpty(ws)
            THEN <<[vals |-> HeaderCells,
                    style |-> IF Len(ws) = 0 THEN "none" ELSE ws[1].style]>>
            ELSE ws
        template_row_idx == IF max_row(with_header) >= 2 THEN 2 ELSE 1
        template_style == with_header[template_row_idx].style
    IN  Append(with_header,
               [vals |-> RowCells(record),
                style |-> IF template_style # "none" THEN template_style ELSE "none"])

\* Mutant of mirror_lines: the file opened in append mode, so the new lines
\* follow what the mirror held.
mirror_lines_appended(rows) ==
    csv_lines
    \o <<[c \in Cols |-> NameText(FIELDNAMES[c])]>>
    \o [i \in 1..Len(rows) |->
          [c \in Cols |-> format_value(FIELDNAMES[c], Get(rows[i], FIELDNAMES[c], Str(<< >>)))]]

\* The lines csv.DictWriter writes: the header, then one line per row.
mirror_lines(rows) ==
    <<[c \in Cols |-> NameText(FIELDNAMES[c])]>>
    \o [i \in 1..Len(rows) |->
          [c \in Cols |-> format_value(FIELDNAMES[c], Get(rows[i], FIELDNAMES[c], Str(<< >>)))]]

\* ------------------------------------------------------------------ grouping for the plot

UnknownTire == <<"Unknown tire">>

\* float(crr_value): a float is itself, a str is parsed as it stands.
FloatOf(value) ==
    CASE IsNum(value)  -> [ok |-> TRUE, v |-> value.n]
      [] IsStr(value)  -> ParseFloat(value.s)
      [] IsNone(value) -> [ok |-> FALSE, v |-> 0]

\* The group name of a row: str(row.get(...)).strip(), or "Unknown tire".
tire_name_of(row) ==
    LET name == Strip(PyStr(Get(row, F_tire, Str(<< >>))))
    IN  IF name = << >> THEN UnknownTire ELSE name

\* The (p, crr) point of a row; ok = FALSE for a row the loop skips.
point_of(row) ==
    LET pressure_text == Replace(PyStr(Get(row, F_pressure, Str(<< >>))), ",", ".")
        crr_value == Get(row, F_Crr, None)
    IN  IF pressure_text = << >> \/ IsNone(crr_value)
        THEN [ok |-> FALSE, pt |-> <<0, 0>>]
        ELSE LET p == ParseFloat(pressure_text)
                 crr == FloatOf(crr_value)
             IN  IF p.ok /\ crr.ok
                 THEN [ok |-> TRUE, pt |-> <<p.v, crr.v>>]
                 ELSE [ok |-> FALSE, pt |-> <<0, 0>>]

RECURSIVE tire_groups_from(_, _)
\* tire_groups after the loop over rows: name -> points in row order.
tire_groups_from(rows, groups) ==
    IF rows = << >> THEN groups
    ELSE LET row  == Head(rows)
             name == tire_name_of(row)
             pt   == point_of(row)
             next == IF ~pt.ok THEN groups
                     ELSE IF name \in DOMAIN groups
                          THEN [groups EXCEPT ![name] = Append(@, pt.pt)]
                          ELSE [k \in DOMAIN groups \cup {name} |->
                                  IF k = name THEN <<pt.pt>> ELSE groups[k]]
         IN  tire_groups_from(Tail(rows), next)

RECURSIVE InsertByPressure(_, _)
\* v put into the sorted list after every point whose pressure is not larger.
InsertByPressure(sorted, v) ==
    IF sorted = << >> THEN <<v>>
    ELSE IF Head(sorted)[1] <= v[1]
         THEN <<Head(sorted)>> \o InsertByPressure(Tail(sorted), v)
         ELSE <<v>> \o sorted

RECURSIVE SortFrom(_, _)
SortFrom(values, acc) ==
    IF values = << >> THEN acc
    ELSE SortFrom(Tail(values), InsertByPressure(acc, Head(values)))

\* sorted(values, key=lambda x: x[0]): ascending pressure, stable.
values_sorted(values) == SortFrom(values, << >>)

\* What the plot loop draws: one sorted curve per tire name.
plot_series(rows) ==
    LET groups == tire_groups_from(rows, EmptyMap)
    IN  [name \in DOMAIN groups |-> values_sorted(groups[name])]

\* ------------------------------------------------------------------ inputs

IdleOk == <<",", "5", " ", "1">>
LoadOk == <<"1", ".", "2">>
WeightOk == <<" ", "2">>

\* What the operator may have typed into the form when Calculate is pressed.
Forms ==
    { [tire |-> <<" ", "A">>, pressure |-> <<"2", ",", "5">>, idle |-> IdleOk,
       load |-> LoadOk, weight |-> WeightOk],
      [tire |-> <<" ">>, pressure |-> <<"2", ".", "0">>, idle |-> IdleOk,
       load |-> LoadOk, weight |-> WeightOk],
      [tire |-> <<"A">>, pressure |-> <<"2", ".", "0">>, idle |-> <<"1", " ", "x">>,
       load |-> LoadOk, weight |-> WeightOk],
      [tire |-> <<"A">>, pressure |-> <<"2", ".", "0">>, idle |-> IdleOk,
       load |-> <<" ">>, weight |-> WeightOk],
      [tire |-> <<"A">>, pressure |-> <<"2", ".", "0">>, idle |-> IdleOk,
       load |-> LoadOk, weight |-> << >>],
      [tire |-> <<"A">>, pressure |-> <<"2", ".", "0">>, idle |-> IdleOk,
       load |-> LoadOk, weight |-> <<"0">>],
      [tire |-> <<"A">>, pressure |-> <<"2", ".", "0">>, idle |-> IdleOk,
       load |-> LoadOk, weight |-> <<"2", "x">>] }

\* The same, and a form with a load current typed with "_" for the decimal
\* separator.
AnyForms ==
    Forms \cup
    { [tire |-> <<" ", "A">>, pressure |-> <<"2", ",", "5">>, idle |-> IdleOk,
       load |-> <<"0", "_", "2">>, weight |-> WeightOk] }

\* What a user may type into a cell of a data row in Excel: the field, and the
\* value the cell holds afterwards (text, or a number cell).
TypedCells ==
    { [field |-> F_pressure, value |-> Str(<<"1", ",", "5">>)] }

\* The same, and a coefficient retyped with a decimal comma.
AnyTypedCells ==
    TypedCells \cup { [field |-> F_Crr, value |-> Str(<<"0", ",", "5">>)] }

\* ------------------------------------------------------------------ outcomes

\* How a handler ended: "ok"; "reported" (a message box named the error and
\* the handler returned); "escaped" (an exception left the handler).
Ok == [status |-> "ok", error |-> "none"]

Reported(error) == [status |-> "reported", error |-> error]

Escaped(error) == [status |-> "escaped", error |-> error]

\* Mutant of Catches: an except clause that catches its own class only.
Catches_exact(class, exc) == class = exc

\* Whether an except clause for the class catches the exception.
Catches(class, exc) == class = "Exception" \/ class = exc

\* The entry fields as no Calculate has read them.
NoEntry == [tire |-> << >>, pressure |-> << >>, idle |-> << >>, load |-> << >>, weight |-> << >>]

\* No call of get_unique_filename on record.
NoCall == [base |-> << >>, path |-> << >>, made |-> "nothing"]

\* The files the directory of the script holds when the program starts: what
\* two earlier runs left, the second of which wrote no mirror.
StartupDisk ==
    {base_xlsx, base_csv, candidate(splitext(base_xlsx).name, 2, splitext(base_xlsx).ext)}

\* __init__ on a disk holding the files.
InitOn(files) ==
    /\ saved_rows = << >>
    /\ last_result = None
    /\ disk = files
    /\ filename_xlsx = get_unique_filename(base_xlsx, files)
    /\ filename_csv = get_unique_filename(base_csv, files)
    /\ xlsx_exists = FALSE
    /\ sheet = << >>
    /\ csv_exists = FALSE
    /\ csv_lines = << >>
    /\ written = {}
    /\ op = "init"
    /\ outcome = Ok
    /\ rows_used = << >>
    /\ series = EmptyMap
    /\ created = FALSE
    /\ edits = 0
    /\ entered = NoEntry
    /\ resolved = NoCall
    /\ made = "nothing"
    /\ earlier = NoCall

Init == InitOn(StartupDisk)

\* ------------------------------------------------------------------ Calculate

\* The body of the try block: the exception it raises, or the dict it builds.
calculate(form) ==
    LET idle_values == parse_float_list(form.idle)
        load_values == parse_float_list(form.load)
        w_text == Strip(Replace(form.weight, ",", "."))
        m_hang == ParseFloat(w_text)
    IN  IF ~idle_values.ok \/ ~load_values.ok \/ w_text = << >> \/ ~m_hang.ok
        THEN [raised |-> "ValueError", result |-> None]
        ELSE LET core_result == compute_result(idle_values.vals, load_values.vals, m_hang.v)
             IN  IF ~core_result.ok
                 THEN [raised |-> "ZeroDivisionError", result |-> None]
                 ELSE [raised |-> "none",
                       result |-> [k \in FieldSet |->
                           CASE k = F_tire     -> Str(Strip(form.tire))
                             [] k = F_pressure -> Str(Strip(Replace(form.pressure, ",", ".")))
                             [] k = F_idle     -> Str(Strip(form.idle))
                             [] k = F_load     -> Str(Strip(form.load))
                             [] OTHER          -> core_result.r[k]]]

\* calculate, form by form.
CalculateTable == [form \in AnyForms |-> calculate(form)]

\* Mutant of Calculate: self.last_result reset to None when the try block raises.
Calculate_clearing(forms) ==
    \E form \in forms :
        LET run == CalculateTable[form]
        IN  /\ op' = "Calculate"
            /\ entered' = form
            /\ last_result' = IF run.raised = "none" THEN run.result ELSE None
            /\ outcome' = IF run.raised = "none" THEN Ok
                          ELSE IF Catches("ValueError", run.raised)
                               THEN Reported("InvalidInput")
                               ELSE Escaped(run.raised)
            /\ rows_used' = << >>
            /\ series' = EmptyMap
            /\ created' = FALSE
            /\ UNCHANGED <<saved_rows, xlsx_exists, sheet, csv_exists, csv_lines, edits>>
            /\ UNCHANGED <<disk, filename_xlsx, filename_csv, written, resolver_vars>>

\* on_calculate with the entry fields holding one of the forms.
Calculate(forms) ==
    \E form \in forms :
        LET run == CalculateTable[form]
        IN  /\ op' = "Calculate"
            /\ entered' = form
            /\ last_result' = IF run.raised = "none" THEN run.result ELSE last_result
            /\ outcome' = IF run.raised = "none" THEN Ok
                          ELSE IF Catches("ValueError", run.raised)
                               THEN Reported("InvalidInput")
                               ELSE Escaped(run.raised)
            /\ rows_used' = << >>
            /\ series' = EmptyMap
            /\ created' = FALSE
            /\ UNCHANGED <<saved_rows, xlsx_exists, sheet, csv_exists, csv_lines, edits>>
            /\ UNCHANGED <<disk, filename_xlsx, filename_csv, written, resolver_vars>>

on_calculate == Calculate(Forms)

on_calculate_any_form == Calculate(AnyForms)

\* ------------------------------------------------------------------ Save

\* Mutant of append_attempt: no os.path.exists check, so load_workbook runs
\* on a missing file and raises.
append_attempt_unchecked(io_fails) ==
    IF last_result = None
    THEN [exists |-> xlsx_exists, sheet |-> sheet, raised |-> "none"]
    ELSE IF ~xlsx_exists \/ io_fails
         THEN [exists |-> xlsx_exists, sheet |-> sheet, raised |-> "OSError"]
         ELSE [exists |-> TRUE, sheet |-> append_row(sheet, last_result), raised |-> "none"]

\* _append_last_result_to_excel_if_exists, with load_workbook or wb.save
\* failing when io_fails: the sheet afterwards and the exception the try
\* block raised.
append_attempt(io_fails) ==
    IF last_result = None \/ ~xlsx_exists
    THEN [exists |-> xlsx_exists, sheet |-> sheet, raised |-> "none"]
    ELSE IF io_fails
         THEN [exists |-> TRUE, sheet |-> sheet, raised |-> "OSError"]
         ELSE [exists |-> TRUE, sheet |-> append_row(sheet, last_result), raised |-> "none"]

\* Mutant of saved_rows_after_save: tire and pressure used as a uniqueness
\* key, a repeated trial replacing nothing and adding nothing.
saved_rows_after_save_unique ==
    IF \E i \in 1..Len(saved_rows) :
           /\ saved_rows[i][F_tire] = last_result[F_tire]
           /\ saved_rows[i][F_pressure] = last_result[F_pressure]
    THEN saved_rows
    ELSE Append(saved_rows, last_result)

\* The list after self.saved_rows.append(self.last_result.copy()).
saved_rows_after_save == Append(saved_rows, last_result)

\* filename_xlsx = self.filename_xlsx: the path wb.save writes.
save_path == filename_xlsx

on_save_to_list ==
    /\ op' = "Save"
    /\ entered' = NoEntry
    /\ rows_used' = << >>
    /\ series' = EmptyMap
    /\ created' = FALSE
    /\ UNCHANGED <<last_result, csv_exists, csv_lines, edits>>
    /\ UNCHANGED <<filename_xlsx, filename_csv, resolver_vars>>
    /\ IF last_result = None
       THEN /\ outcome' = Reported("NoResult")
            /\ UNCHANGED <<saved_rows, xlsx_exists, sheet, disk, written>>
       ELSE /\ Len(saved_rows) < MaxRows
            /\ \E io_fails \in BOOLEAN :
                 LET done == append_attempt(io_fails)
                     saved == IF xlsx_exists /\ done.raised = "none" THEN {save_path} ELSE {}
                 IN  /\ saved_rows' = saved_rows_after_save
                     /\ xlsx_exists' = done.exists
                     /\ sheet' = done.sheet
                     /\ written' = written \cup saved
                     /\ disk' = disk \cup saved
                     /\ outcome' = IF done.raised = "none" THEN Ok
                                   ELSE IF Catches("Exception", done.raised)
                                        THEN Reported("AppendError")
                                        ELSE Escaped(done.raised)

\* ------------------------------------------------------------------ Export

\* Mutant of create_needed: the workbook rebuilt from saved_rows on every Export.
create_always == TRUE

\* if not os.path.exists(filename_xlsx): the workbook is created from saved_rows.
create_needed == ~xlsx_exists

\* Mutant of mirror_after_failed_read: the mirror opened for writing before
\* the spreadsheet is read, so a failed read leaves it truncated.
mirror_truncated_before_read == [exists |-> TRUE, lines |-> << >>]

\* The mirror file when the read of the spreadsheet raised: the handler
\* returns before open(filename_csv, "w").
mirror_after_failed_read == [exists |-> csv_exists, lines |-> csv_lines]

\* The step of on_go_to_excel the environment may make fail: workbook.close()
\* ("create", caught by the outer except), the load_workbook of the read
\* ("read", caught by the inner except), open(filename_csv, "w") ("csv", outer
\* except), os.startfile ("open"). Every failure but the last ends the
\* handler, so one run meets at most one.
ExportFaults == {"none", "create", "read", "csv", "open"}

\* on_go_to_excel under the fault: the files afterwards, the rows read and
\* the outcome.
\* Mutant of csv_path: the mirror written under its base name.
csv_path_unresolved == base_csv

\* filename_csv = self.filename_csv: the path open(..., "w") writes.
csv_path == filename_csv

\* filename_xlsx = self.filename_xlsx: the path xlsxwriter writes.
workbook_path == filename_xlsx

on_go_to_excel ==
    LET ws == IF create_needed THEN create_workbook(saved_rows) ELSE sheet
        rows == read_rows(ws)
        lines == mirror_lines(rows)
    IN  \E fault \in ExportFaults :
            /\ op' = "Export"
            /\ entered' = NoEntry
            /\ series' = EmptyMap
            /\ UNCHANGED <<saved_rows, last_result, edits>>
            /\ UNCHANGED <<filename_xlsx, filename_csv, resolver_vars>>
            /\ IF create_needed /\ saved_rows = << >>
               THEN /\ outcome' = Reported("NoData")
                    /\ rows_used' = << >>
                    /\ UNCHANGED <<xlsx_exists, sheet, csv_exists, csv_lines>>
               ELSE IF create_needed /\ fault = "create"
               THEN /\ outcome' = Reported("WriteError")
                    /\ rows_used' = << >>
                    /\ UNCHANGED <<xlsx_exists, sheet, csv_exists, csv_lines>>
               ELSE /\ xlsx_exists' = TRUE
                    /\ sheet' = ws
                    /\ IF fault = "read"
                       THEN /\ outcome' = Reported("Unreadable")
                            /\ rows_used' = << >>
                            /\ csv_exists' = mirror_after_failed_read.exists
                            /\ csv_lines' = mirror_after_failed_read.lines
                       ELSE IF fault = "csv"
                       THEN /\ outcome' = Reported("WriteError")
                            /\ rows_used' = rows
                            /\ UNCHANGED <<csv_exists, csv_lines>>
                       ELSE /\ outcome' = IF fault = "open" THEN Reported("OpenFailed") ELSE Ok
                            /\ rows_used' = rows
                            /\ csv_exists' = TRUE
                            /\ csv_lines' = lines
            /\ created' = (~xlsx_exists /\ xlsx_exists')
            /\ LET files == (IF created' THEN {workbook_path} ELSE {})
                             \cup (IF outcome'.error \in {"none", "OpenFailed"}
                                   THEN {csv_path} ELSE {})
               IN  /\ written' = written \cup files
                   /\ disk' = disk \cup files

\* ------------------------------------------------------------------ Plot

\* Mutant of rows_for_plot: the in-memory list preferred whenever it has records.
rows_for_plot_list_first(excel_rows) ==
    IF saved_rows # << >> THEN saved_rows ELSE excel_rows

\* The row list the grouping loop runs over, given what was read from the
\* spreadsheet (nothing when there is no file): "if not rows: rows = saved_rows".
rows_for_plot(excel_rows) == IF excel_rows = << >> THEN saved_rows ELSE excel_rows

on_plot_pressure_vs_crr ==
    LET excel_rows == IF xlsx_exists THEN read_rows(sheet) ELSE << >>
        rows == rows_for_plot(excel_rows)
        drawn == plot_series(rows)
    IN  \E read_fails \in BOOLEAN :
            /\ op' = "Plot"
            /\ entered' = NoEntry
            /\ created' = FALSE
            /\ UNCHANGED <<saved_rows, last_result, xlsx_exists, sheet, csv_exists,
                           csv_lines, edits>>
            /\ UNCHANGED <<disk, filename_xlsx, filename_csv, written, resolver_vars>>
            /\ IF xlsx_exists /\ read_fails
               THEN /\ outcome' = Reported("Unreadable")
                    /\ rows_used' = << >>
                    /\ series' = EmptyMap
               ELSE IF excel_rows = << >> /\ saved_rows = << >>
               THEN /\ outcome' = Reported("NoData")
                    /\ rows_used' = << >>
                    /\ series' = EmptyMap
               ELSE /\ rows_used' = rows
                    /\ series' = drawn
                    /\ outcome' = IF DOMAIN drawn = {}
                                  THEN Reported("NoPlottableData")
                                  ELSE Ok

\* ------------------------------------------------------------------ the user, in Excel

ColOf(name) == CHOOSE c \in Cols : FIELDNAMES[c] = name

\* The spreadsheet is edited and saved from outside the program: a data row
\* is deleted, a data row is blanked (its styled cells stay), a cell is
\* retyped, or everything on the sheet is deleted.
Edit(typed_cells) ==
    /\ xlsx_exists
    /\ edits < MaxEdits
    /\ edits' = edits + 1
    /\ op' = "Edit"
    /\ entered' = NoEntry
    /\ created' = FALSE
    /\ outcome' = Ok
    /\ rows_used' = << >>
    /\ series' = EmptyMap
    /\ UNCHANGED <<saved_rows, last_result, xlsx_exists, csv_exists, csv_lines>>
    /\ UNCHANGED <<disk, filename_xlsx, filename_csv, written, resolver_vars>>
    /\ \/ \E i \in 2..Len(sheet) :
            sheet' = SubSeq(sheet, 1, i - 1) \o SubSeq(sheet, i + 1, Len(sheet))
       \/ \E i \in 2..Len(sheet) :
            sheet' = [sheet EXCEPT ![i].vals = [c \in Cols |-> None]]
       \/ \E i \in 2..Len(sheet), typed \in typed_cells :
            sheet' = [sheet EXCEPT ![i].vals[ColOf(typed.field)] = typed.value]
       \/ sheet' = << >>

ExcelEdit == Edit(TypedCells)

ExcelEdit_any_cell == Edit(AnyTypedCells)

Next ==
    \/ on_calculate
    \/ on_save_to_list
    \/ on_go_to_excel
    \/ on_plot_pressure_vs_crr
    \/ ExcelEdit

Spec == Init /\ [][Next]_vars

NextAnyEntry ==
    \/ on_calculate_any_form
    \/ on_save_to_list
    \/ on_go_to_excel
    \/ on_plot_pressure_vs_crr
    \/ ExcelEdit_any_cell

\* The program with the wider choice of entries: every form of AnyForms,
\* every cell of AnyTypedCells.
SpecAnyEntry == Init /\ [][NextAnyEntry]_vars

\* ------------------------------------------------------------------ get_unique_filename, called

\* The paths get_unique_filename is asked about: the spreadsheet of the
\* program, a file without extension in a directory with a dot in its name,
\* and a file whose name starts with a dot.
Bases ==
    { base_xlsx,
      <<"data", ".", "d", "/", "notes">>,
      <<".", "config">> }

\* The files that come and go on disk: the bases and their first candidates.
Paths ==
    Bases \cup {candidate(splitext(b).name, k, splitext(b).ext) : b \in Bases, k \in 2..MaxSuffix}

\* Mutant of disk_after_resolve: the resolver reserves the path it returns
\* by creating an empty file there.
disk_after_resolve_reserving(path) == disk \cup {path}

\* The disk after a call that returned the path: the function only asks
\* os.path.exists.
disk_after_resolve(path) == disk

\* A call get_unique_filename(base).
Resolve ==
    \E base \in Bases :
        LET path == get_unique_filename(base, disk)
        IN  /\ op' = "Resolve"
            /\ outcome' = Ok
            /\ resolved' = [base |-> base, path |-> path, made |-> "nothing"]
            /\ earlier' = IF resolved.base = base
                          THEN [resolved EXCEPT !.made = made]
                          ELSE NoCall
            /\ made' = "nothing"
            /\ disk' = disk_after_resolve(path)
            /\ UNCHANGED app_vars

\* Somebody creates a file.
CreateFile ==
    /\ Cardinality(disk) < MaxFiles
    /\ \E path \in (Paths \cup {resolved.path}) \ (disk \cup {<< >>}) :
          /\ disk' = disk \cup {path}
          /\ made' = IF path = resolved.path \/ made = "resolved" THEN "resolved" ELSE "other"
    /\ op' = "CreateFile"
    /\ outcome' = Ok
    /\ UNCHANGED <<resolved, earlier>>
    /\ UNCHANGED app_vars

NextResolver ==
    \/ Resolve
    \/ CreateFile

\* The program started in an empty directory; files are created and
\* get_unique_filename is called, in any order.
SpecResolver == InitOn({}) /\ [][NextResolver]_vars

\* ------------------------------------------------------------------ claims

\* The data rows of the sheet that have a cell which is not None, in sheet order.
NonEmptyDataRows(ws) ==
    SelectSeq(SubSeq(ws, 2, Len(ws)), LAMBDA r : \E c \in Cols : r.vals[c] # None)

\* rows is, dict by dict and field by field, the cells of the non-empty data rows.
IsSheetRows(rows, ws) ==
    LET data == NonEmptyDataRows(ws)
    IN  /\ Len(rows) = Len(data)
        /\ \A j \in 1..Len(data) :
              /\ DOMAIN rows[j] = FieldSet
              /\ \A c \in Cols : rows[j][FIELDNAMES[c]] = data[j].vals[c]

\* The last Export got as far as reading the rows of the spreadsheet.
ExportReadRows ==
    /\ op = "Export"
    /\ xlsx_exists
    /\ outcome.error \in {"none", "OpenFailed", "WriteError"}

\* The last Plot got as far as grouping rows.
PlotGrouped == op = "Plot" /\ outcome.error \in {"none", "NoPlottableData"}

\* The last Export wrote the mirror.
ExportWroteMirror == op = "Export" /\ outcome.error \in {"none", "OpenFailed"}

\* The last handler ended in an error (a failed launch of the viewer after the
\* files were written is not a failure of the Export).
EndedInError(result) == result.status # "ok" /\ result.error # "OpenFailed"

C2_MirrorReflectsSpreadsheet ==
    ExportWroteMirror =>
        LET data == NonEmptyDataRows(sheet)
        IN  /\ csv_exists
            /\ Len(csv_lines) = Len(data) + 1
            /\ \A c \in Cols : csv_lines[1][c] = <<FIELDNAMES[c]>>
            /\ \A j \in 1..Len(data) : \A c \in Cols :
                  csv_lines[j + 1][c] = format_value(FIELDNAMES[c], data[j].vals[c])

\* A successful Export of a spreadsheet edited since it was written: it has a
\* blank data row that the mirror leaves out, or a retyped cell the mirror
\* shows formatted.
C2_Witness ==
    /\ ExportWroteMirror
    /\ edits > 0
    /\ NonEmptyDataRows(sheet) # << >>
    /\ \/ Len(sheet) - 1 > Len(NonEmptyDataRows(sheet))
       \/ \E j \in 1..Len(NonEmptyDataRows(sheet)) : \E c \in Cols :
             Str(csv_lines[j + 1][c]) # NonEmptyDataRows(sheet)[j].vals[c]
             /\ NonEmptyDataRows(sheet)[j].vals[c] # None

\* C3: an Export performed while the spreadsheet file exists leaves the file
\* and its content as they were, whatever saved_rows holds.
C3_ExportOnlyReadsExistingSpreadsheet ==
    [][(op' = "Export" /\ xlsx_exists) => (xlsx_exists' /\ sheet' = sheet)]_vars

\* An Export that did not create the file, of a spreadsheet that differs from
\* what a bootstrap from saved_rows would write.
C3_Witness ==
    /\ op = "Export"
    /\ ~created
    /\ xlsx_exists
    /\ saved_rows # << >>
    /\ sheet # create_workbook(saved_rows)

\* C4: a Save while the spreadsheet file does not exist reports no append
\* error and lets no exception escape, leaves the file non-existent and the
\* mirror untouched, and appends the record (when there is one) to saved_rows.
C4_SaveWithoutSpreadsheet ==
    [][(op' = "Save" /\ ~xlsx_exists) =>
          /\ ~xlsx_exists'
          /\ sheet' = sheet
          /\ csv_exists' = csv_exists
          /\ csv_lines' = csv_lines
          /\ outcome'.status # "escaped"
          /\ outcome'.error # "AppendError"
          /\ last_result # None =>
                (outcome' = Ok /\ saved_rows' = Append(saved_rows, last_result))]_vars

\* A Save that stored a record while no spreadsheet file existed.
C4_Witness ==
    /\ op = "Save"
    /\ outcome = Ok
    /\ ~xlsx_exists
    /\ saved_rows # << >>
    /\ saved_rows[Len(saved_rows)] = last_result

\* C5: an Export with no spreadsheet file and an empty saved_rows reports
\* NoData and creates neither file; with records in saved_rows the file it
\* creates has the field list as header row and, in list order, one data row
\* per record holding format_value of each field (an empty text being an
\* empty cell), and it creates no file only when writing the workbook failed.
C5_Bootstrap ==
    [][(op' = "Export" /\ ~xlsx_exists) =>
          /\ saved_rows = << >> =>
                (outcome' = Reported("NoData") /\ ~xlsx_exists' /\ ~csv_exists')
          /\ (saved_rows # << >> /\ ~xlsx_exists') => outcome' = Reported("WriteError")
          /\ (saved_rows # << >> /\ xlsx_exists') =>
                /\ Len(sheet') = Len(saved_rows) + 1
                /\ \A c \in Cols : sheet'[1].vals[c] = Str(<<FIELDNAMES[c]>>)
                /\ \A i \in 1..Len(saved_rows) : \A c \in Cols :
                      LET text == format_value(FIELDNAMES[c], saved_rows[i][FIELDNAMES[c]])
                      IN  sheet'[i + 1].vals[c] = IF text = << >> THEN None ELSE Str(text)]_vars

\* An Export that created the spreadsheet from two different records.
C5_Witness ==
    /\ op = "Export"
    /\ created
    /\ Len(saved_rows) = 2
    /\ saved_rows[1] # saved_rows[2]
    /\ Len(sheet) = 3

\* C6: when the append to an existing spreadsheet fails during Save, the
\* error is reported, no exception escapes the handler, and the record is the
\* last element of saved_rows.
C6_AppendFailureIsNotFatal ==
    (op = "Save" /\ outcome.status # "ok" /\ outcome.error # "NoResult") =>
        /\ outcome = Reported("AppendError")
        /\ saved_rows # << >>
        /\ saved_rows[Len(saved_rows)] = last_result

\* A Save whose append to the existing spreadsheet failed.
C6_Witness ==
    /\ op = "Save"
    /\ outcome = Reported("AppendError")
    /\ xlsx_exists
    /\ Len(sheet) - 1 < Len(saved_rows)

\* C7 as stated: whenever Calculate, Save, Export or Plot ends in an error,
\* saved_rows, the spreadsheet file and the mirror file are what they were
\* before the handler started.
C7_FailedOperationLeavesStores ==
    [][(op' \in {"Calculate", "Save", "Export", "Plot"} /\ EndedInError(outcome'))
          => stores' = stores]_vars

\* C8: an Export whose read of the spreadsheet fails leaves the mirror file
\* as it was, and an Export changes the mirror only after the read succeeded.
C8_FailedReadKeepsMirror ==
    [][op' = "Export" =>
          /\ outcome'.error = "Unreadable" =>
                (csv_exists' = csv_exists /\ csv_lines' = csv_lines)
          /\ (csv_exists' # csv_exists \/ csv_lines' # csv_lines) =>
                outcome'.error \in {"none", "OpenFailed"}]_vars

\* An Export whose read failed while the mirror held data lines.
C8_Witness ==
    /\ op = "Export"
    /\ outcome = Reported("Unreadable")
    /\ csv_exists
    /\ Len(csv_lines) >= 2

\* C9: saved_rows changes only by a Save adding the last result at its end;
\* every other step, and a Save without a result, leaves it as it was; a
\* repeated Save of the same result adds a second, equal entry.
C9_RecordStoreAppendOnly ==
    [][IF op' = "Save" /\ last_result # None
       THEN saved_rows' = Append(saved_rows, last_result)
       ELSE saved_rows' = saved_rows]_vars

\* Two equal records in the list, after a later Calculate gave another result.
C9_Witness ==
    /\ Len(saved_rows) = 2
    /\ saved_rows[1] = saved_rows[2]
    /\ op = "Calculate"
    /\ outcome = Ok
    /\ last_result # saved_rows[2]

\* The row has no tire name: the value is absent, or a blank text.
HasEmptyTireName(row) ==
    LET name == Get(row, F_tire, None)
    IN  name = None \/ (IsStr(name) /\ Strip(name.s) = << >>)

Points(curve) == {curve[i] : i \in 1..Len(curve)}

\* C10 as stated: for the rows of either source, every row with an empty tire
\* name that has a point is drawn in the group "Unknown tire", and every
\* group's points are in ascending order of pressure.
C10_SeriesGrouper ==
    PlotGrouped =>
        /\ \A j \in 1..Len(rows_used) :
              (HasEmptyTireName(rows_used[j]) /\ point_of(rows_used[j]).ok) =>
                  /\ UnknownTire \in DOMAIN series
                  /\ point_of(rows_used[j]).pt \in Points(series[UnknownTire])
        /\ \A name \in DOMAIN series :
              \A i \in 1..(Len(series[name]) - 1) :
                  series[name][i][1] <= series[name][i + 1][1]

\* The row with every ',' of its pressure and coefficient texts written '.'.
WithPoints(row) ==
    [k \in DOMAIN row |->
        IF k \in {F_pressure, F_Crr} /\ IsStr(row[k])
        THEN Str(Replace(row[k].s, ",", "."))
        ELSE row[k]]

\* C11 as stated: a row whose pressure text or coefficient text uses ','
\* contributes to its group the point of the same row written with '.'.
C11_EitherSeparator ==
    PlotGrouped =>
        \A j \in 1..Len(rows_used) :
            LET row == rows_used[j]
                dotted == point_of(WithPoints(row))
            IN  dotted.ok =>
                    /\ point_of(row).ok
                    /\ point_of(row).pt = dotted.pt
                    /\ tire_name_of(row) \in DOMAIN series
                    /\ dotted.pt \in Points(series[tire_name_of(row)])

\* C12: a call of get_unique_filename returns the base path when no file has
\* it, and otherwise 'name (k).ext' for the smallest k >= 2 that no file has;
\* what it returns is never the path of an existing file.
C12_UniquePath ==
    op = "Resolve" =>
        LET base == resolved.base
            parts == splitext(base)
        IN  /\ resolved.path \notin disk
            /\ IF base \notin disk
               THEN resolved.path = base
               ELSE \E k \in 2..(Cardinality(disk) + 2) :
                       /\ resolved.path = candidate(parts.name, k, parts.ext)
                       /\ \A j \in 2..(k - 1) : candidate(parts.name, j, parts.ext) \in disk

\* The spreadsheet path resolved while it and its candidate 2 exist.
C12_Witness ==
    /\ op = "Resolve"
    /\ resolved.base = base_xlsx
    /\ base_xlsx \in disk
    /\ resolved.path =
          <<"script_dir", "/", "rolling_resistance_data", " ", "(", "3", ")", ".", "xlsx">>

\* C14: a call of get_unique_filename leaves the disk as it is; a second call
\* for the same path with no file created in between returns what the first
\* returned; after a file was created at the returned path, the next call
\* for the same path returns another path.
C14_ResolverIdempotent ==
    /\ [][op' = "Resolve" => disk' = disk]_vars
    /\ []((op = "Resolve" /\ earlier # NoCall) =>
            /\ earlier.made = "nothing" => resolved.path = earlier.path
            /\ earlier.made = "resolved" => resolved.path # earlier.path)

\* A second call for a path, made after a file was created where the first
\* call pointed, that returned another path.
C14_Witness ==
    /\ op = "Resolve"
    /\ earlier.base = resolved.base
    /\ earlier.made = "resolved"
    /\ earlier.path \in disk
    /\ resolved.path # earlier.path

\* C15: the two file names are resolved at startup to paths no file had then
\* and never change; every path a handler creates or writes is one of the
\* two, and none is a file that existed at startup.
C15_FileIdentity ==
    /\ [](/\ filename_xlsx \notin StartupDisk
          /\ filename_csv \notin StartupDisk
          /\ written \subseteq {filename_xlsx, filename_csv}
          /\ written \cap StartupDisk = {})
    /\ [][filename_xlsx' = filename_xlsx /\ filename_csv' = filename_csv]_vars

\* Both files written, under names that differ from the base names because
\* those were taken at startup.
C15_Witness ==
    /\ written = {filename_xlsx, filename_csv}
    /\ filename_xlsx # base_xlsx
    /\ filename_csv # base_csv
    /\ {base_xlsx, base_csv} \subseteq disk

\* The fixed order of the thirteen fields.
FixedOrder ==
    <<"Tire name / type", "Tire pressure [bar]", "Idle currents [A]", "Load currents [A]",
      "Mean idle current [A]", "Mean load current [A]", "Weight on lever [kg]",
      "Effective weight on tire [kg]", "Speed [m/s]", "P_0 [W]", "P_load [W]",
      "P_rr [W]", "C_rr">>

\* The cells are the thirteen field names, each at its position.
IsHeaderInOrder(cells) ==
    /\ DOMAIN cells = 1..13
    /\ \A c \in 1..13 : cells[c] = Str(<<FixedOrder[c]>>)

\* The cells are the written values of the record, each field at its position.
IsRowInOrder(cells, record) ==
    /\ DOMAIN cells = 1..13
    /\ \A c \in 1..13 :
          cells[c] = StoredCell(format_value(FixedOrder[c], Get(record, FixedOrder[c], Str(<< >>))))

\* The last Save appended a row to the spreadsheet.
SaveAppended == op = "Save" /\ outcome = Ok /\ xlsx_exists

\* C16: the header and every data row the program writes, in the spreadsheet
\* (at the bootstrap and at every append) and in the mirror (at every Export),
\* hold each field at its position in the fixed order of the thirteen fields.
C16_ColumnOrder ==
    /\ SaveAppended =>
          /\ IsHeaderInOrder(sheet[1].vals)
          /\ IsRowInOrder(sheet[Len(sheet)].vals, last_result)
    /\ (op = "Export" /\ created) =>
          /\ IsHeaderInOrder(sheet[1].vals)
          /\ Len(sheet) = Len(saved_rows) + 1
          /\ \A i \in 1..Len(saved_rows) : IsRowInOrder(sheet[i + 1].vals, saved_rows[i])
    /\ ExportWroteMirror =>
          /\ \A c \in 1..13 : csv_lines[1][c] = <<FixedOrder[c]>>
          /\ Len(csv_lines) = Len(rows_used) + 1
          /\ \A i \in 1..Len(rows_used), c \in 1..13 :
                csv_lines[i + 1][c] =
                    format_value(FixedOrder[c], Get(rows_used[i], FixedOrder[c], Str(<< >>)))

\* An append to a spreadsheet whose data rows were removed in Excel: the
\* row holds the speed in column 9 and the coefficient in column 13.
C16_Witness ==
    /\ SaveAppended
    /\ Len(sheet) = 2
    /\ edits > 0
    /\ sheet[2].vals[9] = Str(format_value("Speed [m/s]", last_result["Speed [m/s]"]))
    /\ sheet[2].vals[13] = Str(format_value("C_rr", last_result["C_rr"]))
    /\ sheet[2].vals[9] # sheet[2].vals[5]

\* A decimal number written with ',' or '.': digits, at most one separator,
\* at least one digit.
IsDecimal(text) ==
    LET seps == {i \in 1..Len(text) : text[i] \in {",", "."}}
    IN  /\ Cardinality(seps) <= 1
        /\ \A i \in (1..Len(text)) \ seps :
              text[i] \in {"0", "1", "2", "3", "4", "5", "6", "7", "8", "9"}
        /\ Len(text) > Cardinality(seps)

\* The blank-separated tokens of an entry.
Tokens(text) == LET parts == Split(Strip(text)) IN {parts[i] : i \in 1..Len(parts)}

\* The entries are not a valid input: a current sequence is empty, a current
\* token is no decimal, or the weight is missing or no decimal.
IsInvalidEntry(form) ==
    \/ Tokens(form.idle) = {}
    \/ Tokens(form.load) = {}
    \/ \E token \in Tokens(form.idle) \cup Tokens(form.load) : ~IsDecimal(token)
    \/ ~IsDecimal(Strip(form.weight))

\* C13 as stated: a Plot lets no error escape; the rows whose pressure or
\* coefficient is missing or no decimal leave the groups of the other rows as
\* they are; and the Plot ends with NoPlottableData, without series, exactly
\* when no row has both a pressure and a coefficient that parse.
C13_Filtering ==
    LET HasDecimal(value) == IsNum(value) \/ (IsStr(value) /\ IsDecimal(Strip(value.s)))
        Parses(row) ==
            HasDecimal(Get(row, F_pressure, None)) /\ HasDecimal(Get(row, F_Crr, None))
    IN  /\ op = "Plot" => outcome.status # "escaped"
        /\ PlotGrouped =>
              /\ series = plot_series(SelectSeq(rows_used, Parses))
              /\ outcome = Reported("NoPlottableData")
                    <=> (\A j \in 1..Len(rows_used) : ~Parses(rows_used[j]))
              /\ outcome = Reported("NoPlottableData") => series = EmptyMap

\* C17 as stated: a Calculate on entries that are not a valid input ends with
\* InvalidInput and leaves the last result and the three stores as they were.
C17_InvalidInputAborts ==
    [][(op' = "Calculate" /\ IsInvalidEntry(entered')) =>
          /\ outcome' = Reported("InvalidInput")
          /\ last_result' = last_result
          /\ stores' = stores]_vars

\* C18 as stated: a Calculate with valid entries and a hanging mass of 0 ends
\* in a reported error and leaves the last result and the three stores as
\* they were.
C18_DivisionByZeroReported ==
    [][(/\ op' = "Calculate"
        /\ ~IsInvalidEntry(entered')
        /\ \A i \in 1..Len(entered'.weight) : entered'.weight[i] \in {"0", ",", ".", " "})
          => /\ outcome'.status = "reported"
             /\ last_result' = last_result
             /\ stores' = stores]_vars

\* C19 as stated: the row a Save appends has the style of an existing data
\* row when the sheet has one, and no style when the sheet has no data row.
C19_StyleCloning ==
    [][(op' = "Save" /\ outcome' = Ok /\ xlsx_exists) =>
          LET new_row == sheet'[Len(sheet')]
          IN  IF Len(sheet) >= 2
              THEN \E i \in 2..Len(sheet) : new_row.style = sheet[i].style
              ELSE new_row.style = "none"]_vars

\* C20: a successful Save with the spreadsheet present adds one row after the
\* last row of the sheet, holding the formatted last result; the rows the
\* sheet had keep their values and styles; a header row is written first
\* exactly when the sheet had no cell; the mirror is left alone.
C20_AppendFrame ==
    [][(op' = "Save" /\ outcome' = Ok /\ xlsx_exists) =>
          /\ IF Len(sheet) = 0
             THEN Len(sheet') = 2 /\ IsHeaderInOrder(sheet'[1].vals)
             ELSE Len(sheet') = Len(sheet) + 1
          /\ \A i \in 1..Len(sheet) : sheet'[i] = sheet[i]
          /\ IsRowInOrder(sheet'[Len(sheet')].vals, last_result)
          /\ csv_exists' = csv_exists
          /\ csv_lines' = csv_lines]_vars

\* A second row appended below the first.
C20_Witness ==
    /\ SaveAppended
    /\ Len(sheet) = 3
    /\ Len(saved_rows) = 2
    /\ csv_exists

\* The records a Calculate can produce.
Results ==
    {CalculateTable[form].result : form \in {f \in AnyForms : CalculateTable[f].raised = "none"}}

\* The row of cells that holds the formatted values of a record, field by
\* field in the fixed order.
FormatterImage ==
    [record \in Results |->
        [c \in 1..13 |->
            StoredCell(format_value(FixedOrder[c], Get(record, FixedOrder[c], Str(<< >>))))]]

\* The data rows of the spreadsheet are the formatted records of saved_rows,
\* one row per record, in list order.
SheetMatchesList ==
    xlsx_exists =>
        /\ Len(sheet) = Len(saved_rows) + 1
        /\ \A i \in 1..Len(saved_rows) : sheet[i + 1].vals = FormatterImage[saved_rows[i]]

\* The outcome of a handler that met a failure of the file system.
IsIOFailure(result) ==
    result.error \in {"AppendError", "WriteError", "Unreadable", "OpenFailed", "OSError"}

\* C21: in a run without edits of the files from outside and without I/O
\* failures, whenever the spreadsheet exists its data rows are the formatted
\* records of saved_rows, in the same order and number: this holds at the
\* start, and every Calculate, Save, Export or Plot that meets no I/O failure
\* keeps it, whether the Save comes before or after the Export that created
\* the file.
C21_StoreConsistency ==
    /\ SheetMatchesList
    /\ [][(edits' = 0 /\ ~IsIOFailure(outcome') /\ SheetMatchesList)
             => SheetMatchesList']_vars

\* A record saved before the Export that created the spreadsheet and a
\* different record saved after it, both in the sheet.
C21_Witness ==
    /\ op = "Save"
    /\ outcome = Ok
    /\ edits = 0
    /\ xlsx_exists
    /\ Len(saved_rows) = 2
    /\ saved_rows[1] # saved_rows[2]
    /\ SheetMatchesList

\* The step is a Calculate that succeeded.
CalculateSucceeds == op' = "Calculate" /\ outcome' = Ok

\* C22: the stored result is none at the start, becomes the result of the
\* entries at every Calculate that succeeds and is changed by no other step,
\* a failed Calculate included; a Save with no stored result ends with an
\* error and changes neither the stores nor the stored result, and every
\* other Save adds the stored result, unchanged, at the end of saved_rows and
\* keeps the records saved before.
C22_SaveSource ==
    /\ last_result = None
    /\ [][/\ CalculateSucceeds =>
              /\ CalculateTable[entered'].raised = "none"
              /\ last_result' = CalculateTable[entered'].result
          /\ ~CalculateSucceeds => last_result' = last_result
          /\ op' = "Save" =>
              IF last_result = None
              THEN /\ outcome'.status = "reported"
                   /\ stores' = stores
              ELSE /\ Len(saved_rows') = Len(saved_rows) + 1
                   /\ saved_rows'[Len(saved_rows')] = last_result
                   /\ \A i \in 1..Len(saved_rows) : saved_rows'[i] = saved_rows[i]]_vars

\* A Calculate that failed after a result was calculated and saved: the
\* result is still stored.
C22_Witness ==
    /\ op = "Calculate"
    /\ outcome.status # "ok"
    /\ last_result # None
    /\ saved_rows # << >>
    /\ saved_rows[Len(saved_rows)] = last_result
    /\ Len(saved_rows) < MaxRows

====
